---- MODULE Spec2Model ----
(***************************************************************************)
(* A model of the pydgeot Jinja processor (pydgeot/plugins/jinja).         *)
(* The processor's two handlers, prepare(path) and generate(path), are     *)
(* actions over the processor's fields (_generate, _set_contexts,          *)
(* current_path), the source files on disk, the files written to the       *)
(* build directory and the host application's source and context stores.   *)
(***************************************************************************)
EXTENDS Integers, Sequences, FiniteSets, TLC

\* Saturation point of the per-path count of output files written since the
\* path's last parse.
MaxWrites == 2

SourceRoot == "src"
BuildRoot == "build"

PathSeq == << <<SourceRoot, "a.html">>, <<SourceRoot, "b.html">> >>
Paths == {PathSeq[i] : i \in 1..Len(PathSeq)}
NoPath == <<>>

-----------------------------------------------------------------------------
(* Template source text, as the sequence of its elements.                  *)

Text(s) == [kind |-> "text", name |-> s]
Var(n) == [kind |-> "var", name |-> n]
Import(t) == [kind |-> "import", name |-> t]
\* {% set name = <constant> %}
Set(n, v) == [kind |-> "set", name |-> n, const |-> TRUE, value |-> v]
\* {% set name = <expression> %}, the expression evaluating to v
SetExpr(n, v) == [kind |-> "set", name |-> n, const |-> FALSE, value |-> v]
\* {% setcontext name = <constant> %}
SetContext(n, v) == [kind |-> "setcontext", name |-> n, assign |-> TRUE, value |-> v]
\* {% setcontext name %}
SetContextTag(n) == [kind |-> "setcontext", name |-> n, assign |-> FALSE, value |-> ""]
ConstArg(v) == [const |-> TRUE, value |-> v]
NameArg(n, v) == [const |-> FALSE, name |-> n, value |-> v]
\* {{ fn(args) }}
Call(fn, args) == [kind |-> "call", name |-> fn, args |-> args]

TplPage ==
    << Text("page"), Import("macros.html"), SetExpr("template_only", "True"),
       SetContext("k", "v"), SetContext("k", "w"), SetContextTag("j"),
       Var("url"),
       Call("range", <<ConstArg("1"), ConstArg("2")>>),
       Call("getcontexts", <<ConstArg("k"), ConstArg("w")>>) >>
TplBase ==
    << Text("base"), Set("template_only", "True"),
       SetContext("url", "x"), SetContext("k", "w") >>
TplPart ==
    << Text("part"), SetContext("template_only", "True"), Set("q", "w"),
       Call("getcontexts", <<ConstArg("k"), NameArg("q", "w")>>) >>
TplPlain ==
    << Text("plain"), Set("template_only", "True"), Set("template_only", "False"),
       SetContext("k", "v") >>

Templates == {TplPage, TplBase, TplPart, TplPlain}

-----------------------------------------------------------------------------
(* Parsing: the syntax tree, and the calls the 'setcontext' extension      *)
(* makes on the processor while the source is parsed.                      *)

NameNode(n, ctx) == [type |-> "Name", name |-> n, ctx |-> ctx]
ConstNode(v) == [type |-> "Const", value |-> v]
AssignNode(target, node) == [type |-> "Assign", target |-> target, node |-> node]

add_set_context(d, name, value) ==
    [n \in DOMAIN d \cup {name} |-> IF n = name THEN value ELSE d[n]]

\* A 'setcontext' tag that only registers the context and assigns nothing.
SetContextParseRegisterOnly(st) == << >>

\* The nodes SetContextExtension.parse returns for one tag.
SetContextParse(st) ==
    IF st.assign
    THEN << AssignNode(NameNode(st.name, "store"), ConstNode(st.value)) >>
    ELSE << >>

ArgNode(a) == IF a.const THEN ConstNode(a.value) ELSE NameNode(a.name, "load")

ParseStatement(st) ==
    CASE st.kind = "setcontext" -> SetContextParse(st)
      [] st.kind = "set" ->
            << AssignNode(NameNode(st.name, "store"),
                          IF st.const THEN ConstNode(st.value)
                          ELSE NameNode("expr", "load")) >>
      [] st.kind = "call" ->
            << [type |-> "Call", node |-> NameNode(st.name, "load"),
                args |-> [i \in 1..Len(st.args) |-> ArgNode(st.args[i])]] >>
      [] st.kind = "import" ->
            << [type |-> "Import", template |-> ConstNode(st.name)] >>
      [] st.kind = "var" -> << [type |-> "Output", node |-> NameNode(st.name, "load")] >>
      [] OTHER -> << [type |-> "TemplateData", data |-> st.name] >>

RECURSIVE Parse(_)
Parse(src) ==
    IF src = << >> THEN << >> ELSE ParseStatement(Head(src)) \o Parse(Tail(src))

\* The processor's _set_contexts after parsing src, starting from d.
RECURSIVE ParseSetContexts(_, _)
ParseSetContexts(src, d) ==
    IF src = << >> THEN d
    ELSE ParseSetContexts(
            Tail(src),
            IF Head(src).kind = "setcontext" /\ Head(src).assign
            THEN add_set_context(d, Head(src).name, Head(src).value)
            ELSE d)

RECURSIVE get_const_vars_from(_, _)
get_const_vars_from(ast, const_vars) ==
    IF ast = << >> THEN const_vars
    ELSE get_const_vars_from(
            Tail(ast),
            IF /\ Head(ast).type = "Assign"
               /\ Head(ast).target.type = "Name"
               /\ Head(ast).node.type = "Const"
            THEN [n \in DOMAIN const_vars \cup {Head(ast).target.name} |->
                    IF n = Head(ast).target.name THEN Head(ast).node.value
                    ELSE const_vars[n]]
            ELSE const_vars)

get_const_vars(ast) == get_const_vars_from(ast, << >>)

IsContextRequest(node) ==
    /\ node.type = "Call"
    /\ node.node.type = "Name"
    /\ Len(node.args) = 2
    /\ node.args[1].type = "Const"
    /\ node.args[2].type = "Const"

RECURSIVE get_context_requests(_)
get_context_requests(ast) ==
    IF ast = << >> THEN << >>
    ELSE (IF IsContextRequest(Head(ast))
          THEN << <<Head(ast).args[1].value, Head(ast).args[2].value>> >>
          ELSE << >>) \o get_context_requests(Tail(ast))

RECURSIVE find_referenced_templates(_)
find_referenced_templates(ast) ==
    IF ast = << >> THEN << >>
    ELSE (IF Head(ast).type = "Import" THEN << Head(ast).template.value >> ELSE << >>)
         \o find_referenced_templates(Tail(ast))

\* Python truthiness of a constant, as 'not template_only' tests it.
Truthy(v) == v \notin {"False", "None", "0", ""}

\* A processor that never finds the variable.
TemplateOnlyIgnored(consts) == FALSE

TemplateOnly(consts) ==
    IF "template_only" \in DOMAIN consts THEN Truthy(consts["template_only"]) ELSE FALSE

Range(s) == {s[i] : i \in 1..Len(s)}

-----------------------------------------------------------------------------
(* The host application.                                                   *)

target_path(path) == <<BuildRoot, path[2]>>
source_path(t) == <<SourceRoot, t>>
relative_path(path) == path[2]
Url(target) == "/" \o relative_path(target)
\* A second target another processor of the host may give a source.
other_target(path) == <<BuildRoot, path[2] \o ".gz">>

VARIABLES
    files,            \* the source files on disk: path -> template source
    generate_,        \* JinjaProcessor._generate: path -> (target, ast)
    set_contexts,     \* JinjaProcessor._set_contexts
    current_path,     \* JinjaProcessor.current_path
    sources,          \* app.sources: the source paths the host knows
    targets,          \* app.sources: path -> targets
    dependencies,     \* app.sources: path -> template dependencies
    context_deps,     \* app.contexts: path -> (name, value) dependencies
    contexts,         \* app.contexts: path -> name -> value
    last,             \* the most recent call, and the file it wrote if any
    parsed,           \* per path: the source text its latest parse read
    progress,         \* per path: "parsed" or "generated", by the latest call
    writes            \* per path: output files written since its latest parse

vars == << files, generate_, set_contexts, current_path, sources, targets,
           dependencies, context_deps, contexts, last, parsed, progress, writes >>

Merge(over, base) ==
    [n \in DOMAIN over \cup DOMAIN base |-> IF n \in DOMAIN over THEN over[n] ELSE base[n]]

\* app.sources.get_source(path): the host's record of a source, if it has one.
get_source(path) ==
    IF path \in sources
    THEN << [size |-> <<"size", path[2]>>, modified |-> <<"modified", path[2]>>] >>
    ELSE << >>

get_targets(path) == targets[path]

set_targets(ts, path, new) == [ts EXCEPT ![path] = new]

set_dependencies(deps, path, new) == [deps EXCEPT ![path] = new]

\* A host call that clears nothing.
keep_dependencies(deps, path) == deps

clear_dependencies(deps, path) == [deps EXCEPT ![path] = {}]

add_dependency(deps, path, name, value) == [deps EXCEPT ![path] = @ \cup {<<name, value>>}]

\* A host call that removes nothing.
keep_context(ctxs, path) == ctxs

remove_context(ctxs, path) == [ctxs EXCEPT ![path] = << >>]

set_context(ctxs, path, name, value) ==
    [ctxs EXCEPT ![path] = Merge([n \in {name} |-> value], @)]

\* for name, value in requests: add_dependency(path, name, value)
RECURSIVE AddDependencies(_, _, _)
AddDependencies(deps, path, requests) ==
    IF requests = << >> THEN deps
    ELSE AddDependencies(add_dependency(deps, path, Head(requests)[1], Head(requests)[2]),
                         path, Tail(requests))

\* for name, value in d.items(): set_context(path, name, value)
RECURSIVE SetContexts(_, _, _)
SetContexts(ctxs, path, d) ==
    IF DOMAIN d = {} THEN ctxs
    ELSE LET n == CHOOSE x \in DOMAIN d : TRUE
         IN  SetContexts(set_context(ctxs, path, n, d[n]), path,
                         [x \in DOMAIN d \ {n} |-> d[x]])

\* app.contexts.get_contexts(name, value), in the host's order.
RECURSIVE ContextResults(_, _, _)
ContextResults(ps, name, value) ==
    IF ps = << >> THEN << >>
    ELSE (IF name \in DOMAIN contexts[Head(ps)] /\ contexts[Head(ps)][name] = value
          THEN << [source |-> Head(ps), name |-> name, value |-> value] >>
          ELSE << >>) \o ContextResults(Tail(ps), name, value)

\* The variables both handlers build from the host's record of a source.
SourceVars(path) ==
    LET source == get_source(path)
        ts == get_targets(path)
        url == IF Cardinality(ts) = 1
               THEN [n \in {"url"} |-> Url(CHOOSE t \in ts : TRUE)]
               ELSE << >>
    IN  IF source # << >>
        THEN Merge([urls |-> {Url(t) : t \in ts},
                    size |-> source[1].size,
                    modified |-> source[1].modified], url)
        ELSE << >>

\* The built-in values written after the context variables.
ContextDictBuiltinsLast(result) ==
    Merge(SourceVars(result.source), contexts[result.source])

\* The dictionary get_contexts builds for one result.
ContextDict(result) == Merge(contexts[result.source], SourceVars(result.source))

\* The template function 'getcontexts'.
get_contexts(name, value) ==
    LET results == ContextResults(PathSeq, name, value)
    IN  [i \in 1..Len(results) |-> ContextDict(results[i])]

\* template.render(**context_dict): the chunks of the rendered text.
RECURSIVE RenderFrom(_, _)
RenderFrom(src, scope) ==
    IF src = << >> THEN << >>
    ELSE LET st == Head(src)
             rest == Tail(src)
         IN  CASE st.kind = "text" -> << st >> \o RenderFrom(rest, scope)
               [] st.kind = "var" ->
                    << [kind |-> "var", name |-> st.name,
                        value |-> IF st.name \in DOMAIN scope
                                  THEN << scope[st.name] >> ELSE << >>] >>
                    \o RenderFrom(rest, scope)
               [] st.kind = "set" ->
                    RenderFrom(rest, Merge([n \in {st.name} |-> st.value], scope))
               [] st.kind = "setcontext" ->
                    IF st.assign
                    THEN RenderFrom(rest, Merge([n \in {st.name} |-> st.value], scope))
                    ELSE RenderFrom(rest, scope)
               [] st.kind = "call" ->
                    << [kind |-> "call", name |-> st.name,
                        value |-> IF st.name = "getcontexts"
                                  THEN get_contexts(st.args[1].value, st.args[2].value)
                                  ELSE [i \in 1..Len(st.args) |-> st.args[i].value]] >>
                    \o RenderFrom(rest, scope)
               [] OTHER -> RenderFrom(rest, scope)

Render(src, context_dict) == RenderFrom(src, context_dict)

-----------------------------------------------------------------------------
\* The record of a call: out holds the file the call wrote and the variables
\* it rendered the file with, if it wrote one.
Called(op, path, acted, out) == [op |-> op, path |-> path, acted |-> acted, out |-> out]

Init ==
    /\ files \in [Paths -> Templates]
    /\ generate_ = << >>
    /\ set_contexts = << >>
    /\ current_path = NoPath
    /\ sources \in SUBSET Paths
    /\ targets = [p \in Paths |-> {}]
    /\ dependencies = [p \in Paths |-> {}]
    /\ context_deps = [p \in Paths |-> {}]
    /\ contexts = [p \in Paths |-> << >>]
    /\ last = Called("init", NoPath, FALSE, << >>)
    /\ parsed = [p \in Paths |-> << >>]
    /\ progress = [p \in Paths |-> "none"]
    /\ writes = [p \in Paths |-> 0]

Put(d, k, v) == [x \in DOMAIN d \cup {k} |-> IF x = k THEN v ELSE d[x]]
\* A delete that is missing.
DelMissing(d, k) == d

Del(d, k) == [x \in DOMAIN d \ {k} |-> d[x]]

\* A dictionary that is not reset.
keep_set_contexts(d) == d

\* self._set_contexts = {}
reset_set_contexts(d) == << >>

\* if not template_only: self._generate[path] = (target, ast)
add_generate(gen, path, target, ast, template_only) ==
    IF ~template_only THEN Put(gen, path, [target |-> target, ast |-> ast]) ELSE gen

\* The branch of prepare taken when the path has no pending generation.
PrepareParse(path) ==
    LET target == target_path(path)
        ast == Parse(files[path])
        parsed_contexts == ParseSetContexts(files[path], reset_set_contexts(set_contexts))
        consts == get_const_vars(ast)
        template_only == TemplateOnly(consts)
    IN  /\ current_path' = path
        /\ set_contexts' = parsed_contexts
        /\ targets' = set_targets(targets, path, {target})
        /\ dependencies' =
                set_dependencies(dependencies, path,
                                 {source_path(t) : t \in Range(find_referenced_templates(ast))})
        /\ context_deps' = AddDependencies(clear_dependencies(context_deps, path), path,
                                           get_context_requests(ast))
        /\ contexts' = SetContexts(remove_context(contexts, path), path, parsed_contexts)
        /\ generate_' = add_generate(generate_, path, target, ast, template_only)
        /\ parsed' = [parsed EXCEPT ![path] = files[path]]
        /\ progress' = [progress EXCEPT ![path] = "parsed"]
        /\ writes' = [writes EXCEPT ![path] = 0]

Prepare(path) ==
    /\ IF path \notin DOMAIN generate_
       THEN PrepareParse(path)
       ELSE UNCHANGED << current_path, set_contexts, targets, dependencies,
                         context_deps, contexts, generate_, parsed, progress, writes >>
    /\ last' = Called("prepare", path, path \notin DOMAIN generate_, << >>)
    /\ UNCHANGED << files, sources >>

\* The source text generate renders for a pending path.
generate_template(path) == files[path]

\* The branch of generate taken when the path has a pending generation.
GenerateWrite(path) ==
    LET target == generate_[path].target
        template == generate_template(path)
        context_dict == SourceVars(path)
    IN  /\ set_contexts' = ParseSetContexts(template, set_contexts)
        /\ last' = Called("generate", path, TRUE,
                          << [target |-> target,
                              text |-> Render(template, context_dict),
                              context_dict |-> context_dict] >>)
        /\ generate_' = Del(generate_, path)
        /\ writes' = [writes EXCEPT ![path] = IF @ < MaxWrites THEN @ + 1 ELSE @]

Generate(path) ==
    /\ IF path \in DOMAIN generate_
       THEN GenerateWrite(path)
       ELSE /\ last' = Called("generate", path, FALSE, << >>)
            /\ UNCHANGED << set_contexts, generate_, writes >>
    /\ progress' = [progress EXCEPT ![path] = "generated"]
    /\ UNCHANGED << files, current_path, sources, targets, dependencies,
                    context_deps, contexts, parsed >>

\* The source file is edited on disk.
WriteFile(path, src) ==
    /\ files[path] # src
    /\ files' = [files EXCEPT ![path] = src]
    /\ last' = Called("edit", NoPath, FALSE, << >>)
    /\ UNCHANGED << generate_, set_contexts, current_path, sources, targets,
                    dependencies, context_deps, contexts, parsed, progress, writes >>

\* The host learns of a source file.
HostAddSource(path) ==
    /\ path \notin sources
    /\ sources' = sources \cup {path}
    /\ last' = Called("host", NoPath, FALSE, << >>)
    /\ UNCHANGED << files, generate_, set_contexts, current_path, targets,
                    dependencies, context_deps, contexts, parsed, progress, writes >>

\* The host forgets a source file.
HostRemoveSource(path) ==
    /\ path \in sources
    /\ sources' = sources \ {path}
    /\ last' = Called("host", NoPath, FALSE, << >>)
    /\ UNCHANGED << files, generate_, set_contexts, current_path, targets,
                    dependencies, context_deps, contexts, parsed, progress, writes >>

\* Another processor of the host gives the source no target, or a second one.
HostSetTargets(path, new) ==
    /\ targets[path] # new
    /\ targets' = set_targets(targets, path, new)
    /\ last' = Called("host", NoPath, FALSE, << >>)
    /\ UNCHANGED << files, generate_, set_contexts, current_path, sources,
                    dependencies, context_deps, contexts, parsed, progress, writes >>

\* The processor's handlers and the edits of the source files, the host's
\* stores changing only as the handlers change them.
Next ==
    \/ \E path \in Paths : Prepare(path)
    \/ \E path \in Paths : Generate(path)
    \/ \E path \in Paths, src \in Templates : WriteFile(path, src)

Spec == Init /\ [][Next]_vars

\* The handlers over source files that stay as they are, with the host
\* changing its own record of the sources.
NextHost ==
    \/ \E path \in Paths : Prepare(path)
    \/ \E path \in Paths : Generate(path)
    \/ \E path \in Paths : HostAddSource(path)
    \/ \E path \in Paths : HostRemoveSource(path)
    \/ \E path \in Paths :
          \E new \in {{}, {target_path(path), other_target(path)}} :
              HostSetTargets(path, new)

SpecHost == Init /\ [][NextHost]_vars

-----------------------------------------------------------------------------
(* The properties, stated over the source text of the templates.           *)

IsSetContext(st) == st.kind = "setcontext" /\ st.assign

\* The constant last assigned to name by a 'set' or 'setcontext' tag, if any.
RECURSIVE LastAssigned(_, _)
LastAssigned(src, name) ==
    IF src = << >> THEN << >>
    ELSE LET st == src[Len(src)]
         IN  IF /\ st.kind \in {"set", "setcontext"}
                /\ st.name = name
                /\ (IF st.kind = "set" THEN st.const ELSE st.assign)
             THEN << st.value >>
             ELSE LastAssigned(SubSeq(src, 1, Len(src) - 1), name)

\* The template sets template_only to True.
MarkedTemplateOnly(src) == LastAssigned(src, "template_only") = << "True" >>

SetContextNames(src) == {src[i].name : i \in {j \in 1..Len(src) : IsSetContext(src[j])}}

\* The value of the last 'setcontext' tag of src that assigns to name.
LastSetContext(src, name) ==
    LET at == {i \in 1..Len(src) : IsSetContext(src[i]) /\ src[i].name = name}
    IN  src[CHOOSE i \in at : \A j \in at : j <= i].value

SetContextPairs(src) == [n \in SetContextNames(src) |-> LastSetContext(src, n)]

IsTwoConstantCall(st) ==
    /\ st.kind = "call"
    /\ Len(st.args) = 2
    /\ st.args[1].const
    /\ st.args[2].const

\* The (name, value) pairs of the two-constant-argument calls of src.
TwoConstantCalls(src) ==
    {<<src[i].args[1].value, src[i].args[2].value>> :
        i \in {j \in 1..Len(src) : IsTwoConstantCall(src[j])}}

\* Those of the calls to getcontexts alone.
GetContextsCalls(src) ==
    {<<src[i].args[1].value, src[i].args[2].value>> :
        i \in {j \in 1..Len(src) :
                IsTwoConstantCall(src[j]) /\ src[j].name = "getcontexts"}}

ImportedSources(src) ==
    {source_path(src[i].name) : i \in {j \in 1..Len(src) : src[j].kind = "import"}}

\* src with each assigning 'setcontext' tag written as the built-in 'set' tag.
AsBuiltinSet(src) ==
    [i \in 1..Len(src) |->
        IF IsSetContext(src[i]) THEN Set(src[i].name, src[i].value) ELSE src[i]]

Other(p) == CHOOSE q \in Paths : q # p

PrepareParsed(p) == last.op = "prepare" /\ last.path = p /\ last.acted
GenerateWrote(p) == last.op = "generate" /\ last.path = p /\ last.acted

C2_ContextsAreSetContextPairs ==
    \A p \in Paths :
        parsed[p] # << >> => contexts[p] = SetContextPairs(parsed[p])

C2_Witness ==
    \E p \in Paths :
        /\ PrepareParsed(p)
        /\ files[p] = TplPage
        /\ contexts[p] = [n \in {"k"} |-> "w"]
        /\ contexts[Other(p)] = [n \in {"k", "url"} |-> IF n = "k" THEN "w" ELSE "x"]

\* C3: the constant variables extracted from a template are those extracted
\* from the same template with 'set' written for every assigning 'setcontext',
\* so a file that sets template_only to True with 'setcontext' gets no pending
\* generation, and the context is registered with the host as well.
C3_SetContextWorksAsSet ==
    \A p \in Paths :
        /\ get_const_vars(Parse(files[p])) = get_const_vars(Parse(AsBuiltinSet(files[p])))
        /\ parsed[p] # << >> =>
            /\ TemplateOnly(get_const_vars(Parse(AsBuiltinSet(parsed[p]))))
                    => p \notin DOMAIN generate_
            /\ \A n \in SetContextNames(parsed[p]) : n \in DOMAIN contexts[p]

C3_Witness ==
    \E p \in Paths :
        /\ PrepareParsed(p)
        /\ files[p] = TplPart
        /\ p \notin DOMAIN generate_
        /\ contexts[p] = [n \in {"template_only"} |-> "True"]

\* C4: after a prepare that parsed the file, the context dependencies the host
\* holds for the path are exactly the pairs of the file's getcontexts calls
\* with two constant arguments; no call to another function gives one.
C4_DependenciesAreGetContextsCalls ==
    \A p \in Paths :
        parsed[p] # << >> => context_deps[p] = GetContextsCalls(parsed[p])

\* C5: a path has a pending generation exactly when its latest parse was of a
\* file that is not template-only and no generate of the path has run since;
\* an output file is written only after such a parse, to the path's target,
\* and at most once per parse.
C5_PendingIffInProgress ==
    \A p \in Paths :
        /\ p \in DOMAIN generate_
              <=> (progress[p] = "parsed" /\ ~MarkedTemplateOnly(parsed[p]))
        /\ writes[p] <= 1
        /\ writes[p] = 1 =>
              /\ parsed[p] # << >>
              /\ ~MarkedTemplateOnly(parsed[p])
              /\ progress[p] = "generated"
        /\ GenerateWrote(p) =>
              /\ writes[p] = 1
              /\ last.out[1].target = target_path(p)

C5_Witness ==
    \E p \in Paths :
        /\ GenerateWrote(p)
        /\ writes[p] = 1
        /\ Other(p) \in DOMAIN generate_
        /\ progress[Other(p)] = "parsed"

\* The records of path are those derived from the source text src.
RecordsRebuilt(p, src) ==
    /\ p \in DOMAIN generate_ <=> ~MarkedTemplateOnly(src)
    /\ p \in DOMAIN generate_ =>
          generate_[p] = [target |-> target_path(p), ast |-> Parse(src)]
    /\ set_contexts = SetContextPairs(src)
    /\ contexts[p] = SetContextPairs(src)
    /\ context_deps[p] = TwoConstantCalls(src)
    /\ targets[p] = {target_path(p)}
    /\ dependencies[p] = ImportedSources(src)

\* C6 as claimed: after every invocation of prepare, the path's pending
\* generation, set-context pairs, context requests and host metadata are those
\* derived from the file's content at that invocation.
C6_EveryPrepareRebuilds ==
    \A p \in Paths :
        (last.op = "prepare" /\ last.path = p) => RecordsRebuilt(p, files[p])

\* C6 as amended: after an invocation of prepare on a path that had no pending
\* generation, the records are those derived from the file's content at that
\* invocation; an invocation on a path with a pending generation leaves the
\* pending generation and the host metadata as the path's latest parse left
\* them.
C6_ParsingPrepareRebuilds ==
    \A p \in Paths :
        /\ PrepareParsed(p) => RecordsRebuilt(p, files[p])
        /\ (last.op = "prepare" /\ last.path = p /\ ~last.acted) =>
              /\ p \in DOMAIN generate_
              /\ generate_[p] = [target |-> target_path(p), ast |-> Parse(parsed[p])]
              /\ contexts[p] = SetContextPairs(parsed[p])
              /\ context_deps[p] = TwoConstantCalls(parsed[p])
              /\ dependencies[p] = ImportedSources(parsed[p])

C6_Witness ==
    \E p \in Paths :
        /\ PrepareParsed(p)
        /\ files[p] = TplBase
        /\ progress[Other(p)] = "generated"
        /\ writes[Other(p)] = 1
        /\ context_deps[Other(p)] # {}

\* C7: the output generate writes to the recorded target is the rendering of
\* the file content that prepare parsed.
C7_RendersParsedTemplate ==
    \A p \in Paths :
        GenerateWrote(p) =>
            /\ last.out[1].target = target_path(p)
            /\ last.out[1].text = Render(parsed[p], last.out[1].context_dict)

\* C8: every context the host stores for a path is a pair assigned by a
\* 'setcontext' tag of the path's own file, as its latest parse read it.
C8_NoContextLeak ==
    \A p \in Paths :
        \A n \in DOMAIN contexts[p] :
            \E i \in 1..Len(parsed[p]) :
                /\ IsSetContext(parsed[p][i])
                /\ parsed[p][i].name = n
                /\ parsed[p][i].value = contexts[p][n]

C8_Witness ==
    \E p \in Paths :
        /\ PrepareParsed(p)
        /\ contexts[p] # << >>
        /\ progress[Other(p)] = "generated"
        /\ writes[Other(p)] = 1
        /\ \E n \in DOMAIN contexts[Other(p)] : n \notin DOMAIN contexts[p]

ContextNames == {"k", "url", "template_only"}
ContextValues == {"v", "w", "x", "True"}

KnownWithOneTarget(p) == p \in sources /\ Cardinality(targets[p]) = 1

\* The built-in values of d other than 'url' are those of the source p.
BuiltinsPresent(d, p) ==
    p \in sources =>
        /\ {"urls", "size", "modified"} \subseteq DOMAIN d
        /\ d["urls"] = {Url(t) : t \in targets[p]}

\* What holds of the dictionaries of getcontexts(name, value), url(d, p)
\* saying when 'url' is to be a key of the dictionary d built for p.
GetContextsDicts(name, value, url(_, _)) ==
    LET results == ContextResults(PathSeq, name, value)
        dicts == get_contexts(name, value)
    IN  /\ Len(dicts) = Len(results)
        /\ \A i \in 1..Len(results) :
              LET p == results[i].source
              IN  /\ url(dicts[i], p)
                  /\ BuiltinsPresent(dicts[i], p)
                  /\ \A c \in DOMAIN contexts[p] : dicts[i][c] = contexts[p][c]

UrlIffOneTarget(d, p) == "url" \in DOMAIN d <=> KnownWithOneTarget(p)

UrlIffOneTargetOrContext(d, p) ==
    "url" \in DOMAIN d <=> (KnownWithOneTarget(p) \/ "url" \in DOMAIN contexts[p])

\* The variables generate rendered the file with.
GenerateDict(p) ==
    GenerateWrote(p) =>
        /\ UrlIffOneTarget(last.out[1].context_dict, p)
        /\ BuiltinsPresent(last.out[1].context_dict, p)
        /\ p \notin sources => last.out[1].context_dict = << >>

\* C9 as claimed: in the variables built by generate and by getcontexts, 'url'
\* is a key if and only if the host knows the source and it has exactly one
\* target; 'urls', 'size' and 'modified' are keys whenever the host knows the
\* source, 'urls' holding the '/'-prefixed relative path of every target; a
\* context variable of the source overrides the built-in value of its name;
\* getcontexts returns one dictionary per context result, in the host's order.
C9_UrlIffOneTarget ==
    /\ \A p \in Paths : GenerateDict(p)
    /\ \A name \in ContextNames, value \in ContextValues :
          GetContextsDicts(name, value, UrlIffOneTarget)

\* C9 as amended: the same, except that in a dictionary of getcontexts 'url' is
\* a key if and only if the host knows the source and it has exactly one
\* target, or the source has a context variable named 'url'.
C9_UrlIffOneTargetOrContext ==
    /\ \A p \in Paths : GenerateDict(p)
    /\ \A name \in ContextNames, value \in ContextValues :
          GetContextsDicts(name, value, UrlIffOneTargetOrContext)

C9_Witness ==
    \E p \in Paths :
        /\ GenerateWrote(p)
        /\ p \in sources
        /\ Cardinality(targets[p]) = 2
        /\ Len(get_contexts("k", "w")) = 2
        /\ KnownWithOneTarget(Other(p))
        /\ "url" \in DOMAIN contexts[Other(p)]

====
